---------------------------- MODULE Spec2Model ----------------------------
(***************************************************************************)
(* The two scripts of mediapipeavatar as state machines.                   *)
(*                                                                         *)
(*   TEST.py  the camera probe: open device 0, then read / show / poll     *)
(*            until a read fails or 'q' is pressed, then release.          *)
(*   main.py  the launcher: start the tracking worker, block on one line   *)
(*            of console input, set global_vars.KILL_THREADS, sleep, exit. *)
(*                                                                         *)
(* Each statement of a script is one action; the position of the script    *)
(* is a program counter.  The calls made on the outside world (cv2, the    *)
(* console, the worker thread) are recorded in a history sequence, so that *)
(* the order of the calls can be stated.                                   *)
(***************************************************************************)
EXTENDS Integers, Sequences, FiniteSets

VARIABLES
    \* ---- TEST.py ----
    ppc,              \* position of the probe script
    deviceAvailable,  \* environment: can device 0 be opened
    validFrames,      \* environment: frames the camera yields before a read fails
    capState,         \* the VideoCapture object: "none", "closed", "open", "released"
    ret,              \* TEST.py:15  ret
    frame,            \* TEST.py:15  frame (0 is None, i > 0 is the i-th frame)
    key,              \* the value of the last cv2.waitKey(1), NoKeyYet before any
    shown,            \* frames handed to cv2.imshow, in order
    windows,          \* "none", "open", "destroyed"
    stdout,           \* lines printed by the probe
    probeExit,        \* exit status of the probe process, Running while it runs
    plog,             \* history of the calls the probe has made
    \* ---- main.py ----
    mpc,              \* position of the launcher's main thread
    stdin,            \* environment: the lines still to be read from the console
    i,                \* main.py:16  i
    KILL_THREADS,     \* global_vars.KILL_THREADS
    wpc,              \* the worker thread: "none", "constructed", "poll", "iter", "stopped"
    iters,            \* iterations the worker has completed
    slept,            \* tenths of a second the main thread has slept
    launcherOut,      \* lines printed by the launcher
    mlog              \* history of the steps of the launcher's main thread

probeVars == <<ppc, deviceAvailable, validFrames, capState, ret, frame, key,
               shown, windows, stdout, probeExit, plog>>
launcherVars == <<mpc, stdin, i, KILL_THREADS, wpc, iters, slept, launcherOut, mlog>>
vars == <<probeVars, launcherVars>>

----------------------------------------------------------------------------
(* Bounds *)

MaxFrames == 3   \* the camera yields at most this many valid frames
MaxIters == 3    \* the worker completes at most this many iterations

----------------------------------------------------------------------------
(* Helpers on histories *)

Count(s, e) == Cardinality({n \in 1..Len(s) : s[n] = e})

Has(s, e) == \E n \in 1..Len(s) : s[n] = e

\* every e in s comes before every f in s
Before(s, e, f) == \A m, n \in 1..Len(s) : (s[m] = e /\ s[n] = f) => m < n

Last(s) == s[Len(s)]

----------------------------------------------------------------------------
(* TEST.py *)

Running == -1
NoKeyYet == -2
None == 0

OpenFailedMsg == "Failed to open webcam"
GrabFailedMsg == "Failed to grab frame"

\* values cv2.waitKey(1) can return: -1 when no key was pressed within the
\* timeout, else a key code, whose bits above the low byte depend on the backend
KeyCodes == {-1, 27, 81, 113, 113 + 256, 81 + 256, 113 + 65536}

ByteMask == 255
OrdQ == 113

\* Python's a & b for b >= 0 (a in two's complement of unbounded width)
RECURSIVE BitAnd(_, _)
BitAnd(a, b) ==
    IF b = 0 THEN 0
    ELSE (a % 2) * (b % 2) + 2 * BitAnd(a \div 2, b \div 2)

\* TEST.py:20  cv2.waitKey(1) & 0xFF == ord('q'); in Python & binds tighter than ==
QuitKeyUnmasked(k) == k = OrdQ
QuitKey(k) == BitAnd(k, ByteMask) = OrdQ

\* the status of a Python process that ends by exit() with no argument, or by
\* running off the end of the script
ExitNoArg == 0

ProbeInit ==
    /\ ppc = "open"
    /\ deviceAvailable \in BOOLEAN
    /\ validFrames \in 0..MaxFrames
    /\ capState = "none"
    /\ ret = FALSE
    /\ frame = None
    /\ key = NoKeyYet
    /\ shown = <<>>
    /\ windows = "none"
    /\ stdout = <<>>
    /\ probeExit = Running
    /\ plog = <<>>

\* TEST.py:9  cap = cv2.VideoCapture(0)
OpenCapture ==
    /\ ppc = "open"
    /\ capState' = IF deviceAvailable THEN "open" ELSE "closed"
    /\ plog' = Append(plog, "VideoCapture")
    /\ ppc' = "check"
    /\ UNCHANGED <<deviceAvailable, validFrames, ret, frame, key, shown, windows,
                   stdout, probeExit>>
    /\ UNCHANGED launcherVars

\* TEST.py:10-12 without the exit(): the script falls through into the loop
CheckOpenedNoExit ==
    /\ ppc = "check"
    /\ plog' = IF capState = "open" THEN Append(plog, "isOpened")
               ELSE plog \o <<"isOpened", "print">>
    /\ stdout' = IF capState = "open" THEN stdout ELSE Append(stdout, OpenFailedMsg)
    /\ ppc' = "read"
    /\ UNCHANGED <<deviceAvailable, validFrames, capState, ret, frame, key, shown,
                   windows, probeExit>>
    /\ UNCHANGED launcherVars

\* TEST.py:10-12  if not cap.isOpened(): print(...); exit()
CheckOpened ==
    /\ ppc = "check"
    /\ IF capState = "open"
       THEN /\ plog' = Append(plog, "isOpened")
            /\ ppc' = "read"
            /\ UNCHANGED <<stdout, probeExit>>
       ELSE /\ plog' = plog \o <<"isOpened", "print", "exit">>
            /\ stdout' = Append(stdout, OpenFailedMsg)
            /\ probeExit' = ExitNoArg
            /\ ppc' = "exited"
    /\ UNCHANGED <<deviceAvailable, validFrames, capState, ret, frame, key, shown,
                   windows>>
    /\ UNCHANGED launcherVars

\* what cap.read() returns on the n-th read of an open device
ReadRet(n) == n <= validFrames
ReadFrame(n) == IF n <= validFrames THEN n ELSE None

\* TEST.py:15-18 with the break lost: the failed read is shown like any other
ReadNoBreak ==
    /\ ppc = "read"
    /\ LET n == Count(plog, "read") + 1 IN
       /\ ret' = (capState = "open" /\ ReadRet(n))
       /\ frame' = IF capState = "open" THEN ReadFrame(n) ELSE None
       /\ plog' = IF ret' THEN Append(plog, "read") ELSE plog \o <<"read", "print">>
       /\ stdout' = IF ret' THEN stdout ELSE Append(stdout, GrabFailedMsg)
       /\ ppc' = "show"
    /\ UNCHANGED <<deviceAvailable, validFrames, capState, key, shown, windows,
                   probeExit>>
    /\ UNCHANGED launcherVars

\* TEST.py:15-18 with the device released in the failure branch as well
ReadReleaseInBranch ==
    /\ ppc = "read"
    /\ LET n == Count(plog, "read") + 1 IN
       /\ ret' = (capState = "open" /\ ReadRet(n))
       /\ frame' = IF capState = "open" THEN ReadFrame(n) ELSE None
       /\ IF ret'
          THEN /\ plog' = Append(plog, "read")
               /\ ppc' = "show"
               /\ UNCHANGED <<stdout, capState>>
          ELSE /\ plog' = plog \o <<"read", "print", "release">>
               /\ stdout' = Append(stdout, GrabFailedMsg)
               /\ capState' = "released"
               /\ ppc' = "release"
    /\ UNCHANGED <<deviceAvailable, validFrames, key, shown, windows, probeExit>>
    /\ UNCHANGED launcherVars

\* TEST.py:14-18  ret, frame = cap.read(); if not ret: print(...); break
Read ==
    /\ ppc = "read"
    /\ LET n == Count(plog, "read") + 1 IN
       /\ ret' = (capState = "open" /\ ReadRet(n))
       /\ frame' = IF capState = "open" THEN ReadFrame(n) ELSE None
       /\ IF ret'
          THEN /\ plog' = Append(plog, "read")
               /\ ppc' = "show"
               /\ UNCHANGED stdout
          ELSE /\ plog' = plog \o <<"read", "print">>
               /\ stdout' = Append(stdout, GrabFailedMsg)
               /\ ppc' = "release"
    /\ UNCHANGED <<deviceAvailable, validFrames, capState, key, shown, windows,
                   probeExit>>
    /\ UNCHANGED launcherVars

\* TEST.py:19  cv2.imshow("Webcam", frame)
Show ==
    /\ ppc = "show"
    /\ shown' = Append(shown, frame)
    /\ windows' = "open"
    /\ plog' = Append(plog, "imshow")
    /\ ppc' = "poll"
    /\ UNCHANGED <<deviceAvailable, validFrames, capState, ret, frame, key, stdout,
                   probeExit>>
    /\ UNCHANGED launcherVars

\* TEST.py:20-21 with the comparison made on the whole key code
PollUnmasked ==
    /\ ppc = "poll"
    /\ \E k \in KeyCodes :
        /\ key' = k
        /\ ppc' = IF QuitKeyUnmasked(k) THEN "release" ELSE "read"
    /\ plog' = Append(plog, "waitKey")
    /\ UNCHANGED <<deviceAvailable, validFrames, capState, ret, frame, shown,
                   windows, stdout, probeExit>>
    /\ UNCHANGED launcherVars

\* TEST.py:20-21 with the break lost: the quit key is polled and ignored
PollNoBreak ==
    /\ ppc = "poll"
    /\ \E k \in KeyCodes :
        /\ key' = k
        /\ ppc' = "read"
    /\ plog' = Append(plog, "waitKey")
    /\ UNCHANGED <<deviceAvailable, validFrames, capState, ret, frame, shown,
                   windows, stdout, probeExit>>
    /\ UNCHANGED launcherVars

\* TEST.py:20-21  if cv2.waitKey(1) & 0xFF == ord('q'): break
Poll ==
    /\ ppc = "poll"
    /\ \E k \in KeyCodes :
        /\ key' = k
        /\ ppc' = IF QuitKey(k) THEN "release" ELSE "read"
    /\ plog' = Append(plog, "waitKey")
    /\ UNCHANGED <<deviceAvailable, validFrames, capState, ret, frame, shown,
                   windows, stdout, probeExit>>
    /\ UNCHANGED launcherVars

\* TEST.py:23  cap.release()
Release ==
    /\ ppc = "release"
    /\ capState' = "released"
    /\ plog' = Append(plog, "release")
    /\ ppc' = "destroy"
    /\ UNCHANGED <<deviceAvailable, validFrames, ret, frame, key, shown, windows,
                   stdout, probeExit>>
    /\ UNCHANGED launcherVars

\* TEST.py:24  cv2.destroyAllWindows(), and the end of the script
DestroyAllWindows ==
    /\ ppc = "destroy"
    /\ windows' = "destroyed"
    /\ plog' = Append(plog, "destroyAllWindows")
    /\ probeExit' = ExitNoArg
    /\ ppc' = "done"
    /\ UNCHANGED <<deviceAvailable, validFrames, capState, ret, frame, key, shown,
                   stdout>>
    /\ UNCHANGED launcherVars

ProbeNext ==
    \/ OpenCapture
    \/ CheckOpened
    \/ Read
    \/ Show
    \/ Poll
    \/ Release
    \/ DestroyAllWindows
----------------------------------------------------------------------------
(* main.py *)

\* global_vars.KILL_THREADS as the module global_vars creates it
KillThreadsDefault == FALSE

\* time.sleep(0.5), in tenths of a second
GraceTenths == 5

ExitingMsg == "Exiting"

\* what the console can hold: nothing (end of file), or lines, the first of
\* which may be empty
ConsoleInputs == {<<>>, <<"">>, <<"q">>, <<"", "more">>, <<"stop", "">>}

LauncherInit ==
    /\ mpc = "construct"
    /\ stdin \in ConsoleInputs
    /\ i = "unset"
    /\ KILL_THREADS = KillThreadsDefault
    /\ wpc = "none"
    /\ iters = 0
    /\ slept = 0
    /\ launcherOut = <<>>
    /\ mlog = <<>>

\* main.py:13  thread = BodyThread()
Construct ==
    /\ mpc = "construct"
    /\ wpc' = "constructed"
    /\ mlog' = Append(mlog, "construct")
    /\ mpc' = "start"
    /\ UNCHANGED <<stdin, i, KILL_THREADS, iters, slept, launcherOut>>
    /\ UNCHANGED probeVars

\* main.py:14 with the start lost: the thread object is never started
StartLost ==
    /\ mpc = "start"
    /\ mlog' = Append(mlog, "start")
    /\ mpc' = "input"
    /\ UNCHANGED <<stdin, i, KILL_THREADS, wpc, iters, slept, launcherOut>>
    /\ UNCHANGED probeVars

\* main.py:14  thread.start()
Start ==
    /\ mpc = "start"
    /\ wpc' = "poll"
    /\ mlog' = Append(mlog, "start")
    /\ mpc' = "input"
    /\ UNCHANGED <<stdin, i, KILL_THREADS, iters, slept, launcherOut>>
    /\ UNCHANGED probeVars

\* main.py:16 with the end of file swallowed: the script goes on without a line
InputSwallowEOF ==
    /\ mpc = "input"
    /\ IF stdin = <<>>
       THEN /\ mlog' = Append(mlog, "EOFError")
            /\ UNCHANGED <<stdin, i>>
       ELSE /\ i' = Head(stdin)
            /\ stdin' = Tail(stdin)
            /\ mlog' = Append(mlog, "input")
    /\ mpc' = "print"
    /\ UNCHANGED <<KILL_THREADS, wpc, iters, slept, launcherOut>>
    /\ UNCHANGED probeVars

\* main.py:16  i = input(): returns the next line, or raises EOFError, which
\* nothing catches, when the console is at its end
Input ==
    /\ mpc = "input"
    /\ IF stdin = <<>>
       THEN /\ mlog' = Append(mlog, "EOFError")
            /\ mpc' = "crashed"
            /\ UNCHANGED <<stdin, i>>
       ELSE /\ i' = Head(stdin)
            /\ stdin' = Tail(stdin)
            /\ mlog' = Append(mlog, "input")
            /\ mpc' = "print"
    /\ UNCHANGED <<KILL_THREADS, wpc, iters, slept, launcherOut>>
    /\ UNCHANGED probeVars

\* main.py:17  print("Exiting...")
PrintExiting ==
    /\ mpc = "print"
    /\ launcherOut' = Append(launcherOut, ExitingMsg)
    /\ mlog' = Append(mlog, "print")
    /\ mpc' = "setflag"
    /\ UNCHANGED <<stdin, i, KILL_THREADS, wpc, iters, slept>>
    /\ UNCHANGED probeVars

\* main.py:18-19 with the sleep lost: the script exits right after the store
SetFlagNoSleep ==
    /\ mpc = "setflag"
    /\ KILL_THREADS' = TRUE
    /\ mlog' = Append(mlog, "setflag")
    /\ mpc' = "exit"
    /\ UNCHANGED <<stdin, i, wpc, iters, slept, launcherOut>>
    /\ UNCHANGED probeVars

\* main.py:18  global_vars.KILL_THREADS = True
SetFlag ==
    /\ mpc = "setflag"
    /\ KILL_THREADS' = TRUE
    /\ mlog' = Append(mlog, "setflag")
    /\ mpc' = "sleep"
    /\ UNCHANGED <<stdin, i, wpc, iters, slept, launcherOut>>
    /\ UNCHANGED probeVars

\* main.py:19  time.sleep(0.5)
Sleep ==
    /\ mpc = "sleep"
    /\ slept' = slept + GraceTenths
    /\ mlog' = Append(mlog, "sleep")
    /\ mpc' = "exit"
    /\ UNCHANGED <<stdin, i, KILL_THREADS, wpc, iters, launcherOut>>
    /\ UNCHANGED probeVars

\* main.py:20 preceded by thread.join(): the exit waits for the worker
ExitAfterJoin ==
    /\ mpc = "exit"
    /\ wpc = "stopped"
    /\ mlog' = Append(mlog, "exit")
    /\ mpc' = "terminated"
    /\ UNCHANGED <<stdin, i, KILL_THREADS, wpc, iters, slept, launcherOut>>
    /\ UNCHANGED probeVars

\* main.py:20  exit()
Exit ==
    /\ mpc = "exit"
    /\ mlog' = Append(mlog, "exit")
    /\ mpc' = "terminated"
    /\ UNCHANGED <<stdin, i, KILL_THREADS, wpc, iters, slept, launcherOut>>
    /\ UNCHANGED probeVars

\* the worker, at the top of an iteration, reads the flag: stop, or go on
WorkerPoll ==
    /\ wpc = "poll"
    /\ wpc' = IF KILL_THREADS THEN "stopped" ELSE "iter"
    /\ UNCHANGED <<mpc, stdin, i, KILL_THREADS, iters, slept, launcherOut, mlog>>
    /\ UNCHANGED probeVars

\* the worker finishes the iteration it is in
WorkerIterate ==
    /\ wpc = "iter"
    /\ iters < MaxIters
    /\ iters' = iters + 1
    /\ wpc' = "poll"
    /\ UNCHANGED <<mpc, stdin, i, KILL_THREADS, slept, launcherOut, mlog>>
    /\ UNCHANGED probeVars

MainStep ==
    \/ Construct
    \/ Start
    \/ Input
    \/ PrintExiting
    \/ SetFlag
    \/ Sleep
    \/ Exit

LauncherNext ==
    \/ MainStep
    \/ WorkerPoll
    \/ WorkerIterate

----------------------------------------------------------------------------
(* Specifications *)

Init == ProbeInit /\ LauncherInit

\* the camera probe alone
ProbeSpec == Init /\ [][ProbeNext]_vars

\* the probe is a single thread that runs until its script ends
ProbeFairSpec == ProbeSpec /\ WF_vars(ProbeNext)

\* the launcher and its worker alone
LauncherSpec == Init /\ [][LauncherNext]_vars

Next == ProbeNext \/ LauncherNext

Spec == Init /\ [][Next]_vars
----------------------------------------------------------------------------
(* Properties of the launcher (main.py) *)

\* the steps of the main thread in the order of the script
MainOrder == <<"construct", "start", "input", "print", "setflag", "sleep", "exit">>

\* the lines a first input() can return
FirstLines == {Head(c) : c \in ConsoleInputs \ {<<>>}}

\* C1: KILL_THREADS starts false, never goes from true back to false (so it
\* changes at most once), and goes from false to true only when input() has
\* already returned a line, which may be the empty line.
C1_FlagMonotonic ==
    /\ KILL_THREADS = FALSE
    /\ [][/\ KILL_THREADS => KILL_THREADS'
          /\ (~KILL_THREADS /\ KILL_THREADS') =>
                /\ Has(mlog, "input")
                /\ ~Has(mlog, "EOFError")
                /\ i \in FirstLines]_vars

\* C1 witness: the flag is true after the empty line was read
C1_Witness == KILL_THREADS /\ i = "" /\ mpc = "terminated"

\* C5: whenever the main thread has reached exit(), it has slept the grace
\* period of 0.5 exactly once, the sleep was after the flag was set and before
\* the exit, whatever the worker is doing.
C5_SleepBeforeExit ==
    (mpc \in {"exit", "terminated"}) =>
        /\ slept = GraceTenths
        /\ Count(mlog, "sleep") = 1
        /\ Has(mlog, "setflag")
        /\ KILL_THREADS
        /\ Before(mlog, "setflag", "sleep")
        /\ Before(mlog, "sleep", "exit")

\* C5 witness: terminated after the sleep while the worker has not stopped
C5_Witness == mpc = "terminated" /\ wpc = "poll" /\ slept = GraceTenths

\* C7: the main thread's steps happen in the order construct, start, input,
\* print, set flag, sleep, exit (input may instead end the thread with
\* EOFError), and whenever the main thread is at or past input() the worker
\* has been started.
C7_FixedOrder ==
    /\ \/ \E n \in 0..Len(MainOrder) : mlog = SubSeq(MainOrder, 1, n)
       \/ mlog = <<"construct", "start", "EOFError">>
    /\ (mpc = "input" \/ Has(mlog, "input")) => wpc \notin {"none", "constructed"}
    /\ KILL_THREADS => launcherOut = <<ExitingMsg>>
    /\ launcherOut # <<>> => Has(mlog, "input")

\* C7 witness: the whole script has run
C7_Witness == mlog = MainOrder /\ wpc \in {"poll", "iter", "stopped"}

\* C8: no step of the main thread after input() waits for the worker: each is
\* enabled whatever the worker's state, so exit() can be reached while the
\* worker is in the middle of an iteration.
C8_NoJoin ==
    /\ mpc = "print" => ENABLED PrintExiting
    /\ mpc = "setflag" => ENABLED SetFlag
    /\ mpc = "sleep" => ENABLED Sleep
    /\ mpc = "exit" => ENABLED Exit

\* C8 witness: the main thread has exited, the flag is set, and the worker is
\* in the middle of an iteration it began when the flag was still false
C8_Witness == mpc = "terminated" /\ KILL_THREADS /\ wpc = "iter"

----------------------------------------------------------------------------
(* Properties of the camera probe (TEST.py) *)

LoopPcs == {"read", "show", "poll"}

FirstFrames(n) == [m \in 1..n |-> m]

ReadHasFailed == Has(plog, "read") /\ ~ret

\* C2: once a read has failed (after N = validFrames valid frames and no quit
\* key), exactly the N valid frames have been displayed, in order, the failed
\* read's frame is not among them, the failure message has been printed once,
\* the loop has been left, and N + 1 reads have been made, for N in 0..MaxFrames.
C2_FramesThenFailure ==
    ReadHasFailed =>
        /\ shown = FirstFrames(validFrames)
        /\ \A n \in 1..Len(shown) : shown[n] # None
        /\ Count(plog, "imshow") = validFrames
        /\ Count(stdout, GrabFailedMsg) = 1
        /\ Count(plog, "read") = validFrames + 1
        /\ ppc \in {"release", "destroy", "done"}

\* C2 witness: two valid frames, then the failed read, then the end
C2_Witness == ReadHasFailed /\ validFrames = 2 /\ Len(shown) = 2 /\ ppc = "done"

\* C3: when device 0 cannot be opened, the probe never reads a frame, never
\* shows one and never polls a key; it prints the failure message and ends at
\* the exit(), from where no step is possible, and it does get there.
C3_NoLoopWithoutCamera ==
    /\ [](~deviceAvailable =>
            /\ ppc \in {"open", "check", "exited"}
            /\ ~Has(plog, "read") /\ ~Has(plog, "imshow") /\ ~Has(plog, "waitKey")
            /\ shown = <<>>
            /\ key = NoKeyYet
            /\ ppc = "exited" => (stdout = <<OpenFailedMsg>> /\ ~ENABLED ProbeNext)
            /\ ppc # "exited" => stdout = <<>>)
    /\ ~deviceAvailable ~> (ppc = "exited" /\ stdout = <<OpenFailedMsg>>)

\* C3 witness: the probe has exited on a device that did not open
C3_Witness == ~deviceAvailable /\ ppc = "exited" /\ Last(plog) = "exit"

\* C4: once the loop is left the device is released and then the windows are
\* closed, which ends the probe; the device is released at most once, and no
\* read, display or key poll comes after the release.
C4_ReleaseOnce ==
    /\ [](/\ Count(plog, "release") <= 1
          /\ Before(plog, "read", "release")
          /\ Before(plog, "imshow", "release")
          /\ Before(plog, "waitKey", "release")
          /\ Before(plog, "release", "destroyAllWindows")
          /\ ppc = "release" => (ENABLED Release /\ ~Has(plog, "release"))
          /\ ppc = "destroy" => (ENABLED DestroyAllWindows /\ Last(plog) = "release")
          /\ ppc = "done" =>
                /\ capState = "released"
                /\ windows = "destroyed"
                /\ SubSeq(plog, Len(plog) - 1, Len(plog))
                      = <<"release", "destroyAllWindows">>)
    /\ (ppc = "release") ~> (ppc = "destroy" /\ capState = "released")
    /\ (ppc = "destroy") ~> (ppc = "done" /\ windows = "destroyed")

ProbeEnded == ppc = "done" /\ capState = "released" /\ windows = "destroyed"

\* C4 witness: the loop was left by the quit key and the probe has ended
C4_Witness == ppc = "done" /\ key = OrdQ /\ Count(plog, "release") = 1

\* C6 (as claimed): a failure to open device 0 ends the process with a
\* non-zero exit status.
C6_NonZeroExit == (~deviceAvailable /\ ppc = "exited") => probeExit # 0

OkReads == Count(plog, "read") - (IF ReadHasFailed THEN 1 ELSE 0)

LoopEndCause ==
    /\ capState = "open"
    /\ ReadHasFailed \/ (Has(plog, "waitKey") /\ QuitKey(key))

\* C9: inside the loop a successful read is followed by one display, a display
\* by one key poll, and a poll of a key that is not the quit key by the next
\* read; the loop is left only by a failed read or by a poll of the quit key;
\* and once a read has failed or the quit key was polled, the probe
\* eventually ends with the device released and the windows closed.
C9_LoopAndEnd ==
    /\ [][/\ ppc = "read" => ppc' = IF ret' THEN "show" ELSE "release"
          /\ ppc = "show" => (ppc' = "poll" /\ shown' = Append(shown, frame) /\ ret)
          /\ ppc = "poll" => ppc' = IF QuitKey(key') THEN "release" ELSE "read"
          /\ (ppc \in LoopPcs /\ ppc' \notin LoopPcs) =>
                \/ ppc = "read" /\ ~ret'
                \/ ppc = "poll" /\ QuitKey(key')]_vars
    /\ [](/\ Len(shown) = Count(plog, "imshow")
          /\ OkReads = Len(shown) + (IF ppc = "show" THEN 1 ELSE 0)
          /\ Len(shown) = Count(plog, "waitKey") + (IF ppc = "poll" THEN 1 ELSE 0))
    /\ LoopEndCause ~> ProbeEnded

\* C9 witness: three rounds of read, display, poll without the quit key
C9_Witness ==
    /\ ppc = "read"
    /\ plog = <<"VideoCapture", "isOpened", "read", "imshow", "waitKey",
                "read", "imshow", "waitKey", "read", "imshow", "waitKey">>

\* C10: right after a key poll the loop has been left exactly when the low 8
\* bits of the key are 113: not for -1 (no key) nor for 81 ('Q'), but for
\* 113 + 256.
C10_QuitKeyLowByte ==
    (plog # <<>> /\ Last(plog) = "waitKey") =>
        /\ ppc = "release" <=> key % 256 = 113
        /\ ppc = "read" <=> key % 256 # 113
        /\ key \in {-1, 81} => ppc = "read"
        /\ key \in {113, 113 + 256} => ppc = "release"

\* C10 witness: the loop was left on a key code with bits above the low byte
C10_Witness == plog # <<>> /\ Last(plog) = "waitKey" /\ key = 113 + 256 /\ ppc = "release"

=============================================================================
